---- MODULE Spec2Model ----
(***************************************************************************)
(* Dining-availability core of the eats service                            *)
(* (src/src/mcp_server/services/eats/utils.py): the schedule evaluator     *)
(* is_location_open_now and the range compactor group_consecutive_days,    *)
(* applied to one location's list of weekly opening intervals.             *)
(*                                                                         *)
(* A time slot is a Python dict; it is modelled as a TLA+ function whose   *)
(* DOMAIN is the set of keys that are present, so that dict.get(key,       *)
(* default) is a real lookup.  Python strings are TLA+ strings, Python     *)
(* lists are sequences (index i of Python is index i+1 here).              *)
(***************************************************************************)
EXTENDS Integers, Sequences, FiniteSets, TLC

VARIABLES
    location_times,    \* the "times" list of one location (API payload)
    clock,             \* datetime.now(): [weekday, hour, minute], Monday = 0
    is_open,           \* outcome of the last call of is_location_open_now
    hours,             \* outcome of the last call of group_consecutive_days
    day_groups,        \* local of group_consecutive_days: the grouping dict
    formatted_groups,  \* local of group_consecutive_days: the segments
    time_arg,          \* the (hour, minute) a call of format_time_12_hour is given
    time_str,          \* the string that call returned, "" before it
    locations_data,    \* argument of format_locations_list_markdown
    pc,                \* position of that call
    idx,               \* position of its current loop in the list it walks
    open_locations,    \* its local: the count put in the summary line
    listing_order,     \* its cuisine groups in sorted order, flattened
    rendered,          \* the location blocks appended so far
    ticks              \* minutes the wall clock has advanced during the call

listVars == <<locations_data, pc, idx, open_locations, listing_order, rendered, ticks>>

vars == <<location_times, clock, is_open, hours, day_groups, formatted_groups,
          time_arg, time_str, listVars>>

----------------------------------------------------------------------------
(* Bounds of the model *)

\* longest schedule built from arbitrary (also malformed) time slots
MaxLen == 3
\* longest schedule of well-formed slots sharing one pair of clock times
MaxWeek == 8
\* most locations in one listing
MaxLocations == 2
\* most minutes the wall clock advances during one listing
MaxTicks == 1

----------------------------------------------------------------------------
(* Python primitives *)

EmptyDict == <<>>

\* dict.get(key, default)
Get(d, key, default) == IF key \in DOMAIN d THEN d[key] ELSE default

\* f"{n}": no padding
Unpadded(n) == ToString(n)

\* f"{n:02d}": zero-padded to width 2; wider values and negative values
\* that already fill two characters are printed as they are
Pad2(n) == IF n >= 0 /\ n < 10 THEN "0" \o ToString(n) ELSE ToString(n)

RECURSIVE Join(_, _)
\* sep.join(parts)
Join(sep, parts) ==
    IF Len(parts) = 0 THEN ""
    ELSE IF Len(parts) = 1 THEN parts[1]
    ELSE parts[1] \o sep \o Join(sep, Tail(parts))

\* the list left in insertion order
Unsorted(s) == s

\* list.sort() of a list of integers
Sorted(s) == SortSeq(s, LAMBDA a, b : a < b)

----------------------------------------------------------------------------
(* Schedule evaluator *)

\* day, hour, minute of the wall clock, converted to the API's 0 = Sunday
get_current_day_and_time ==
    [day |-> (clock.weekday + 1) % 7, hour |-> clock.hour, minute |-> clock.minute]

\* day * 1440 + hour * 60 + minute of a start or end dict
week_minutes(t) ==
    Get(t, "day", 0) * 1440 + Get(t, "hour", 0) * 60 + Get(t, "minute", 0)

current_minutes ==
    LET now == get_current_day_and_time
    IN  now.day * 1440 + now.hour * 60 + now.minute

start_minutes(time_slot) == week_minutes(Get(time_slot, "start", EmptyDict))
end_minutes(time_slot) == week_minutes(Get(time_slot, "end", EmptyDict))

\* the test of line 55, with the upper bound included
slot_matches_closed(time_slot, current) ==
    start_minutes(time_slot) <= current /\ current <= end_minutes(time_slot)

\* the test of line 55, with the lower bound excluded
slot_matches_open_start(time_slot, current) ==
    start_minutes(time_slot) < current /\ current < end_minutes(time_slot)

\* the test of line 55, with a slot whose start is after its end read as
\* running over the end of the week
slot_matches_cyclic(time_slot, current) ==
    IF start_minutes(time_slot) <= end_minutes(time_slot)
    THEN start_minutes(time_slot) <= current /\ current < end_minutes(time_slot)
    ELSE start_minutes(time_slot) <= current \/ current < end_minutes(time_slot)

\* start_minutes <= current_minutes < end_minutes
slot_matches(time_slot, current) ==
    start_minutes(time_slot) <= current /\ current < end_minutes(time_slot)

\* a loop that answers from the first slot alone
scan_first_only(times, current, i) ==
    IF i > Len(times) THEN FALSE ELSE slot_matches(times[i], current)

\* a loop that keeps the answer of the last slot
scan_last_only(times, current, i) ==
    IF Len(times) = 0 THEN FALSE ELSE slot_matches(times[Len(times)], current)

RECURSIVE scan_time_slots(_, _, _)
\* the for loop of is_location_open_now from slot i on: True at the first
\* matching slot, False when the list is exhausted
scan_time_slots(times, current, i) ==
    IF i > Len(times) THEN FALSE
    ELSE IF slot_matches(times[i], current) THEN TRUE
    ELSE scan_time_slots(times, current, i + 1)

is_location_open_now(times) == scan_time_slots(times, current_minutes, 1)

----------------------------------------------------------------------------
(* Range compactor *)

days == <<"Sunday", "Monday", "Tuesday", "Wednesday", "Thursday", "Friday",
          "Saturday">>

\* days[i] raises IndexError outside -7..6
day_index_ok(i) == i >= 0 - Len(days) /\ i < Len(days)

\* days[i]; a negative index counts from the end of the list
day_name(i) == IF i >= 0 THEN days[i + 1] ELSE days[Len(days) + i + 1]

format_time_12_hour(hour, minute) ==
    IF hour = 0 THEN "12:" \o Pad2(minute) \o " AM"
    ELSE IF hour < 12 THEN ToString(hour) \o ":" \o Pad2(minute) \o " AM"
    ELSE IF hour = 12 THEN "12:" \o Pad2(minute) \o " PM"
    ELSE ToString(hour - 12) \o ":" \o Pad2(minute) \o " PM"

\* the dict key of a slot: "<start_time> - <end_time>"
time_range(time_slot) ==
    LET start == Get(time_slot, "start", EmptyDict)
        end == Get(time_slot, "end", EmptyDict)
        start_time == format_time_12_hour(Get(start, "hour", 0), Get(start, "minute", 0))
        end_time == format_time_12_hour(Get(end, "hour", 0), Get(end, "minute", 0))
    IN  start_time \o " - " \o end_time

\* the day taken from the end dict
day_idx_of_end(time_slot) == Get(Get(time_slot, "end", EmptyDict), "day", 0)

\* day_idx = start.get("day", 0)
day_idx(time_slot) == Get(Get(time_slot, "start", EmptyDict), "day", 0)

\* the same, with a new key put in front of the older ones
add_to_day_groups_in_front(groups, time_slot) ==
    LET key == time_range(time_slot)
        at == {k \in 1..Len(groups) : groups[k].time_range = key}
    IN  IF at = {}
        THEN <<[time_range |-> key, day_indices |-> <<day_idx(time_slot)>>]>> \o groups
        ELSE LET k == CHOOSE k \in at : TRUE
             IN  [groups EXCEPT ![k].day_indices = Append(@, day_idx(time_slot))]

\* day_groups[time_range].append(day_idx), the key being created on its
\* first use; the dict keeps its keys in insertion order
add_to_day_groups(groups, time_slot) ==
    LET key == time_range(time_slot)
        at == {k \in 1..Len(groups) : groups[k].time_range = key}
    IN  IF at = {}
        THEN Append(groups, [time_range |-> key, day_indices |-> <<day_idx(time_slot)>>])
        ELSE LET k == CHOOSE k \in at : TRUE
             IN  [groups EXCEPT ![k].day_indices = Append(@, day_idx(time_slot))]

RECURSIVE build_day_groups(_, _, _)
\* the first for loop of group_consecutive_days, from slot i on
build_day_groups(times, i, groups) ==
    IF i > Len(times) THEN groups
    ELSE build_day_groups(times, i + 1, add_to_day_groups(groups, times[i]))

\* a run printed by its first day alone
run_token_first_day(current_group) == current_group[1]

\* "First - Last" for a run of several days, the day itself for a run of one
run_token(current_group) ==
    IF Len(current_group) > 1
    THEN current_group[1] \o " - " \o current_group[Len(current_group)]
    ELSE current_group[1]

RECURSIVE merge_runs(_, _, _, _)
\* the loop of the else branch (lines 131-144), i being the position in
\* day_indices (Python's i + 1)
merge_runs(day_indices, i, current_group, consecutive_groups) ==
    IF i > Len(day_indices)
    THEN Append(consecutive_groups, run_token(current_group))
    ELSE IF day_indices[i] = day_indices[i - 1] + 1
    THEN merge_runs(day_indices, i + 1,
                    Append(current_group, day_name(day_indices[i])),
                    consecutive_groups)
    ELSE merge_runs(day_indices, i + 1,
                    <<day_name(day_indices[i])>>,
                    Append(consecutive_groups, run_token(current_group)))

\* the label of one group, from its sorted day indices (lines 118-146)
days_str(day_indices) ==
    IF Len(day_indices) = 1 THEN day_name(day_indices[1])
    ELSE IF Len(day_indices) = 7 THEN "Daily"
    ELSE IF day_indices = <<1, 2, 3, 4, 5>> THEN "Monday - Friday"
    ELSE IF day_indices = <<0, 6>> THEN "Saturday - Sunday"
    ELSE Join(", ", merge_runs(day_indices, 2, <<day_name(day_indices[1])>>, <<>>))

RECURSIVE format_groups(_, _, _)
\* the second for loop of group_consecutive_days, from group k on; each
\* group's list is sorted in place, then days[i] is evaluated for each of
\* its indices, which raises IndexError for an index outside the list
format_groups(groups, k, formatted) ==
    IF k > Len(groups)
    THEN [raised |-> FALSE, day_groups |-> groups, formatted_groups |-> formatted]
    ELSE LET day_indices == Sorted(groups[k].day_indices)
             sorted == [groups EXCEPT ![k].day_indices = day_indices]
         IN  IF \E j \in 1..Len(day_indices) : ~day_index_ok(day_indices[j])
             THEN [raised |-> TRUE, day_groups |-> sorted, formatted_groups |-> formatted]
             ELSE format_groups(sorted, k + 1,
                      Append(formatted,
                             days_str(day_indices) \o ": " \o groups[k].time_range))

\* the function without its test for an empty list (lines 90-91)
group_consecutive_days_unguarded(times) ==
    LET r == format_groups(build_day_groups(times, 1, <<>>), 1, <<>>)
    IN  [raised |-> r.raised,
         value |-> IF r.raised THEN "IndexError" ELSE Join(" | ", r.formatted_groups),
         day_groups |-> r.day_groups,
         formatted_groups |-> r.formatted_groups]

\* the whole function: its outcome and the final value of its locals
group_consecutive_days(times) ==
    IF Len(times) = 0
    THEN [raised |-> FALSE, value |-> "Hours not available",
          day_groups |-> <<>>, formatted_groups |-> <<>>]
    ELSE LET r == format_groups(build_day_groups(times, 1, <<>>), 1, <<>>)
         IN  [raised |-> r.raised,
              value |-> IF r.raised THEN "IndexError" ELSE Join(" | ", r.formatted_groups),
              day_groups |-> r.day_groups,
              formatted_groups |-> r.formatted_groups]

----------------------------------------------------------------------------
(* Inputs: the payloads and the clock readings the calls are made with *)

Instant(d, h, m) == [day |-> d, hour |-> h, minute |-> m]

\* time slots as the API may deliver them: well formed, degenerate
\* (start >= end), crossing midnight, running from Saturday into Sunday,
\* with absent fields or absent start/end dicts, and with a day outside 0..6
TimeSlots ==
    { [start |-> Instant(1, 7, 0), end |-> Instant(1, 21, 0)],
      [start |-> Instant(1, 21, 0), end |-> Instant(1, 7, 0)],
      [start |-> Instant(1, 7, 0), end |-> Instant(1, 7, 0)],
      [start |-> Instant(1, 21, 0), end |-> Instant(2, 2, 0)],
      [start |-> Instant(6, 7, 0), end |-> Instant(0, 21, 0)],
      [start |-> [hour |-> 7], end |-> [hour |-> 21]],
      EmptyDict,
      [end |-> Instant(1, 21, 0)],
      [start |-> Instant(1, 7, 0)],
      [start |-> Instant(7, 7, 0), end |-> Instant(7, 21, 0)],
      [start |-> Instant(0 - 1, 7, 0), end |-> Instant(0 - 1, 21, 0)] }

RECURSIVE SeqsUpTo(_, _)
\* the lists of at most n elements of S
SeqsUpTo(S, n) ==
    IF n = 0 THEN {<<>>}
    ELSE LET shorter == SeqsUpTo(S, n - 1)
         IN  shorter \cup {Append(s, x) : s \in shorter, x \in S}

ShortSchedules == SeqsUpTo(TimeSlots, MaxLen)

\* a well-formed slot of day d, 7:00 AM - 9:00 PM
DaySlot(d) == [start |-> Instant(d, 7, 0), end |-> Instant(d, 21, 0)]

RECURSIVE Orderings(_)
\* the lists that hold each element of S once
Orderings(S) ==
    IF S = {} THEN {<<>>}
    ELSE UNION {{<<d>> \o s : s \in Orderings(S \ {d})} : d \in S}

RECURSIVE Ascending(_, _)
\* the non-decreasing lists of n days, each at least lo
Ascending(n, lo) ==
    IF n = 0 THEN {<<>>}
    ELSE UNION {{<<d>> \o s : s \in Ascending(n - 1, d)} : d \in lo..6}

\* the day lists of the one-pattern schedules: every set of days in every
\* order, and every list sorted by day with days listed more than once
DayLists ==
    UNION {Orderings(S) : S \in SUBSET (0..6)}
    \cup UNION {Ascending(n, 0) : n \in 0..MaxWeek}

WeekSchedules == {[i \in 1..Len(ds) |-> DaySlot(ds[i])] : ds \in DayLists}

\* datetime.now() readings: Monday and Sunday, around opening and closing
Clocks ==
    {[weekday |-> w, hour |-> t[1], minute |-> t[2]] :
        w \in {0, 6}, t \in {<<6, 59>>, <<7, 0>>, <<20, 59>>, <<21, 0>>}}

\* no call of format_locations_list_markdown is under way
ListIdle ==
    /\ locations_data = <<>>
    /\ pc = "idle"
    /\ idx = 0
    /\ open_locations = 0
    /\ listing_order = <<>>
    /\ rendered = <<>>
    /\ ticks = 0

NotCalled == [called |-> FALSE, raised |-> FALSE, value |-> FALSE]
NoHours == [called |-> FALSE, raised |-> FALSE, value |-> ""]

----------------------------------------------------------------------------
(* State machine *)

Init ==
    /\ \/ location_times \in ShortSchedules /\ clock \in Clocks
       \/ location_times \in WeekSchedules
          /\ clock = [weekday |-> 0, hour |-> 7, minute |-> 0]
    /\ is_open = NotCalled
    /\ hours = NoHours
    /\ day_groups = <<>>
    /\ formatted_groups = <<>>
    /\ time_arg = [hour |-> 0, minute |-> 0]
    /\ time_str = ""
    /\ ListIdle

\* is_open = is_location_open_now(location.get("times", []))
IsLocationOpenNow ==
    /\ ~is_open.called
    /\ is_open' = [called |-> TRUE, raised |-> FALSE,
                   value |-> is_location_open_now(location_times)]
    /\ UNCHANGED <<location_times, clock, hours, day_groups, formatted_groups>>
    /\ UNCHANGED <<time_arg, time_str, listVars>>

\* hours = group_consecutive_days(times)
GroupConsecutiveDays ==
    /\ ~hours.called
    /\ LET r == group_consecutive_days(location_times)
       IN  /\ hours' = [called |-> TRUE, raised |-> r.raised, value |-> r.value]
           /\ day_groups' = r.day_groups
           /\ formatted_groups' = r.formatted_groups
    /\ UNCHANGED <<location_times, clock, is_open>>
    /\ UNCHANGED <<time_arg, time_str, listVars>>

Next == IsLocationOpenNow \/ GroupConsecutiveDays

Spec == Init /\ [][Next]_vars

\* one call of format_time_12_hour on each time of the day
InitFormat ==
    /\ time_arg \in [hour : 0..23, minute : 0..59]
    /\ time_str = ""
    /\ location_times = <<>>
    /\ clock = [weekday |-> 0, hour |-> 7, minute |-> 0]
    /\ is_open = NotCalled
    /\ hours = NoHours
    /\ day_groups = <<>>
    /\ formatted_groups = <<>>
    /\ ListIdle

\* start_time = format_time_12_hour(hour, minute)
FormatTime12Hour ==
    /\ time_str = ""
    /\ time_str' = format_time_12_hour(time_arg.hour, time_arg.minute)
    /\ UNCHANGED <<location_times, clock, is_open, hours, day_groups,
                   formatted_groups, time_arg, listVars>>

NextFormat == FormatTime12Hour

SpecFormat == InitFormat /\ [][NextFormat]_vars

----------------------------------------------------------------------------
(* format_locations_list_markdown: every call of is_location_open_now reads
   the wall clock anew, and the clock may advance between two of them *)

\* the labels extract_cuisine_type gives the locations of the model, in the
\* order sorted() puts them
Cuisines == <<"Coffee", "Dining">>

\* schedules of the listed locations: none, Monday 7:00 AM - 9:00 PM, and
\* the same followed by Monday 9:00 PM - Tuesday 2:00 AM
ListedSchedules ==
    { <<>>,
      <<[start |-> Instant(1, 7, 0), end |-> Instant(1, 21, 0)]>>,
      <<[start |-> Instant(1, 7, 0), end |-> Instant(1, 21, 0)],
        [start |-> Instant(1, 21, 0), end |-> Instant(2, 2, 0)]>> }

\* a location dict: its "times", and its name and description stood for by
\* the cuisine they are classified as
Locations ==
    {[cuisine |-> Cuisines[c], times |-> t] : c \in 1..Len(Cuisines), t \in ListedSchedules}

\* the positions of the locations of cuisine c, in input order
OfCuisine(locations, c) ==
    SelectSeq([k \in 1..Len(locations) |-> k], LAMBDA k : locations[k].cuisine = c)

RECURSIVE in_cuisine_order(_, _)
\* the order in which the listing walks the locations: cuisine groups by
\* sorted cuisine, each group in input order (lines 217-225, 237-243)
in_cuisine_order(locations, c) ==
    IF c > Len(Cuisines) THEN <<>>
    ELSE OfCuisine(locations, Cuisines[c]) \o in_cuisine_order(locations, c + 1)

\* datetime.now() one minute later
next_minute(t) ==
    IF t.minute < 59 THEN [t EXCEPT !.minute = @ + 1]
    ELSE IF t.hour < 23 THEN [t EXCEPT !.minute = 0, !.hour = @ + 1]
    ELSE [weekday |-> (t.weekday + 1) % 7, hour |-> 0, minute |-> 0]

InitList ==
    /\ locations_data \in SeqsUpTo(Locations, MaxLocations)
    /\ clock \in Clocks
    /\ pc = "start"
    /\ idx = 0
    /\ open_locations = 0
    /\ listing_order = <<>>
    /\ rendered = <<>>
    /\ ticks = 0
    /\ location_times = <<>>
    /\ is_open = NotCalled
    /\ hours = NoHours
    /\ day_groups = <<>>
    /\ formatted_groups = <<>>
    /\ time_arg = [hour |-> 0, minute |-> 0]
    /\ time_str = ""

coreVars == <<location_times, is_open, hours, day_groups, formatted_groups,
              time_arg, time_str>>

\* lines 213-228: the early return for an empty list, else the grouping
\* by cuisine
ListStart ==
    /\ pc = "start"
    /\ IF Len(locations_data) = 0
       THEN pc' = "done" /\ UNCHANGED <<idx, listing_order>>
       ELSE /\ pc' = "summary"
            /\ idx' = 1
            /\ listing_order' = in_cuisine_order(locations_data, 1)
    /\ UNCHANGED <<locations_data, open_locations, rendered, ticks, clock, coreVars>>

\* line 232: one term of the sum, with its own reading of the clock
SummaryRead ==
    /\ pc = "summary"
    /\ open_locations' =
          IF is_location_open_now(locations_data[idx].times)
          THEN open_locations + 1 ELSE open_locations
    /\ IF idx < Len(locations_data)
       THEN idx' = idx + 1 /\ pc' = pc
       ELSE idx' = 1 /\ pc' = "listing"
    /\ UNCHANGED <<locations_data, listing_order, rendered, ticks, clock, coreVars>>

\* lines 243-250: the block of one location, with its own reading of the
\* clock; group_consecutive_days is called by format_location_markdown
ListingRead ==
    /\ pc = "listing"
    /\ LET location == locations_data[listing_order[idx]]
           status == IF is_location_open_now(location.times) THEN "open" ELSE "closed"
           r == group_consecutive_days(location.times)
       IN  IF r.raised
           THEN pc' = "raised" /\ UNCHANGED <<idx, rendered>>
           ELSE /\ rendered' = Append(rendered,
                                  [location |-> listing_order[idx],
                                   status |-> status, hours |-> r.value])
                /\ IF idx < Len(listing_order)
                   THEN idx' = idx + 1 /\ pc' = pc
                   ELSE idx' = idx /\ pc' = "done"
    /\ UNCHANGED <<locations_data, listing_order, open_locations, ticks, clock, coreVars>>

\* the wall clock reaches the next minute while the call is under way
Tick ==
    /\ pc \in {"start", "summary", "listing"}
    /\ ticks < MaxTicks
    /\ ticks' = ticks + 1
    /\ clock' = next_minute(clock)
    /\ UNCHANGED <<locations_data, pc, idx, open_locations, listing_order, rendered,
                   coreVars>>

NextList == ListStart \/ SummaryRead \/ ListingRead \/ Tick

SpecList == InitList /\ [][NextList]_vars

TypeOK ==
    /\ is_open \in [called : BOOLEAN, raised : BOOLEAN, value : BOOLEAN]
    /\ hours.called \in BOOLEAN /\ hours.raised \in BOOLEAN
    /\ Len(formatted_groups) <= Len(day_groups)

----------------------------------------------------------------------------
(* Properties of the schedule evaluator *)

\* the slots of the schedule that cover the clock reading: startM <= now < endM
Covering ==
    {k \in 1..Len(location_times) :
        /\ start_minutes(location_times[k]) <= current_minutes
        /\ current_minutes < end_minutes(location_times[k])}

\* the slots that start, respectively end, exactly at the clock reading
StartingNow ==
    {k \in 1..Len(location_times) : start_minutes(location_times[k]) = current_minutes}
EndingNow ==
    {k \in 1..Len(location_times) : end_minutes(location_times[k]) = current_minutes}

\* C1: is_location_open_now returns true if and only if at least one
\* interval of the schedule, in whatever position, satisfies
\* startM <= current < endM.
C1_OpenIffCovered ==
    is_open.called => (is_open.value <=> Covering # {})

\* C1 witness: an open answer owed to a slot that is not the first one,
\* in a schedule whose slots are not in order of start
C1_Witness ==
    /\ is_open.called /\ is_open.value
    /\ 1 \notin Covering
    /\ \E k \in Covering :
          start_minutes(location_times[k]) < start_minutes(location_times[1])

\* C2 (as stated): a schedule holding an interval that starts exactly now is
\* reported open, whatever that interval's end is.
C2_OpenAtAnyStart ==
    (is_open.called /\ StartingNow # {}) => is_open.value

\* C2 (amended): a schedule holding an interval that starts exactly now and
\* ends after now is reported open.
C2_OpenAtStartOfNonEmptyInterval ==
    (is_open.called
       /\ \E k \in StartingNow : end_minutes(location_times[k]) > current_minutes)
    => is_open.value

\* C2 witness: the only covering slot is one that starts exactly now
C2_Witness ==
    /\ is_open.called /\ is_open.value
    /\ Covering # {} /\ Covering \subseteq StartingNow

\* C3 (as stated): a schedule holding an interval that ends exactly now is
\* reported closed, whatever other intervals it holds.
C3_ClosedAtAnyEnd ==
    (is_open.called /\ EndingNow # {}) => ~is_open.value

\* C3 (amended): an interval that ends exactly now does not count as open;
\* the schedule is reported closed unless another of its intervals
\* satisfies startM <= now < endM.
C3_ClosedAtEndUnlessCoveredElsewhere ==
    (is_open.called /\ EndingNow # {})
    => (is_open.value <=> \E k \in 1..Len(location_times) :
                              k \notin EndingNow /\ k \in Covering)

\* C3 witness: a slot that started earlier ends exactly now and the
\* location is reported closed
C3_Witness ==
    /\ is_open.called /\ ~is_open.value
    /\ \E k \in EndingNow : start_minutes(location_times[k]) < current_minutes

\* C4 (as stated): neither is_location_open_now nor group_consecutive_days
\* ever raises, also on malformed interval records.
C4_NeverRaises ==
    /\ is_open.called => ~is_open.raised
    /\ hours.called => ~hours.raised

----------------------------------------------------------------------------
(* Properties of the range compactor *)

\* the set of days filed in group k of the grouping dict
GroupDays(k) == {day_groups[k].day_indices[j] : j \in 1..Len(day_groups[k].day_indices)}

\* the label printed for group k: its segment is "<label>: <time range>"
HasLabel(k, label) == formatted_groups[k] = label \o ": " \o day_groups[k].time_range

\* the compactor has returned a string
Compacted == hours.called /\ ~hours.raised /\ Len(location_times) > 0

\* C5 (as stated): a group is labelled "Daily" if and only if its days
\* cover all seven days 0..6.
C5_DailyIffAllSevenDays ==
    Compacted => \A k \in 1..Len(day_groups) :
                    HasLabel(k, "Daily") <=> GroupDays(k) = 0..6

\* C6 (as stated): a group whose set of days holds exactly one day is
\* labelled with that day's name alone, however many of its intervals
\* start on that day.
C6_OneDayOneName ==
    Compacted => \A k \in 1..Len(day_groups) :
                    \A d \in 0..6 : GroupDays(k) = {d} => HasLabel(k, days[d + 1])

\* the start days of the schedule, in input order
StartDays == [i \in 1..Len(location_times) |-> day_idx(location_times[i])]

\* all intervals of the schedule have the same clock times
SameTimes ==
    \A i \in 1..Len(location_times) :
        time_range(location_times[i]) = time_range(location_times[1])

\* the schedule has one interval for each day of D and no other
OnePerDay(D) ==
    /\ Len(location_times) = Cardinality(D)
    /\ {StartDays[i] : i \in 1..Len(StartDays)} = D

\* C7: five intervals, one per day Monday..Friday, with identical times give
\* "Monday - Friday: <start> - <end>", and two intervals of Saturday and
\* Sunday with identical times give "Saturday - Sunday: <start> - <end>",
\* in any input order.
C7_WeekdaysAndWeekend ==
    (hours.called /\ Len(location_times) > 0 /\ SameTimes) =>
        /\ OnePerDay(1..5) =>
             hours.value = "Monday - Friday: " \o time_range(location_times[1])
        /\ OnePerDay({0, 6}) =>
             hours.value = "Saturday - Sunday: " \o time_range(location_times[1])

\* C7 witness: the five weekdays given out of order
C7_Witness ==
    /\ hours.called /\ SameTimes /\ OnePerDay(1..5)
    /\ StartDays[1] = 5 /\ StartDays[5] = 1
    /\ hours.value = "Monday - Friday: 7:00 AM - 9:00 PM"

\* the last day of the run of consecutive days of D that begins at day a
RunEnd(D, a) == CHOOSE b \in D : a..b \subseteq D /\ (b + 1) \notin D

RECURSIVE RunTokens(_)
\* one token per maximal run of consecutive integers of D, in ascending
\* order; Saturday (6) is followed by no day
RunTokens(D) ==
    IF D = {} THEN <<>>
    ELSE LET a == CHOOSE x \in D : \A y \in D : x <= y
             b == RunEnd(D, a)
         IN  <<IF a = b THEN days[a + 1] ELSE days[a + 1] \o " - " \o days[b + 1]>>
             \o RunTokens(D \ (a..b))

\* group k holds distinct days of the week and is none of the special cases
GeneralCase(k) ==
    /\ GroupDays(k) \subseteq 0..6
    /\ Cardinality(GroupDays(k)) = Len(day_groups[k].day_indices)
    /\ Len(day_groups[k].day_indices) \notin {1, 7}
    /\ GroupDays(k) # 1..5
    /\ GroupDays(k) # {0, 6}

\* C8: a group of distinct days that is none of the special cases is
\* labelled with one token per maximal run of consecutive day indices
\* ("First - Last", or the day name for a run of one), in ascending order
\* and joined with ", "; Saturday and Sunday are never one run, so
\* {0, 1, 6} gives "Sunday - Monday, Saturday".
C8_GeneralMerge ==
    Compacted => \A k \in 1..Len(day_groups) :
        GeneralCase(k) =>
            /\ HasLabel(k, Join(", ", RunTokens(GroupDays(k))))
            /\ GroupDays(k) = {0, 1, 6} => HasLabel(k, "Sunday - Monday, Saturday")

\* C8 witness: Saturday, Sunday, Monday given in that order
C8_Witness ==
    /\ Compacted
    /\ StartDays = <<6, 0, 1>>
    /\ GeneralCase(1)
    /\ hours.value = "Sunday - Monday, Saturday: 7:00 AM - 9:00 PM"

\* the positions of the schedule at which a pair of clock times is met for
\* the first time
FirstMet ==
    {i \in 1..Len(location_times) :
        \A j \in 1..(i - 1) : time_range(location_times[j]) # time_range(location_times[i])}

\* the k-th of these positions
FirstMetAt(k) == CHOOSE i \in FirstMet : Cardinality({j \in FirstMet : j <= i}) = k

\* C9: the output has exactly one "<label>: <start> - <end>" segment per
\* distinct pair of formatted clock times, the segments are in the order in
\* which the pairs are first met in the input, and they are joined by " | ".
C9_SegmentsInFirstMetOrder ==
    Compacted =>
        /\ Len(formatted_groups) = Cardinality(FirstMet)
        /\ \A k \in 1..Len(formatted_groups) :
              formatted_groups[k] =
                  days_str(day_groups[k].day_indices) \o ": "
                      \o time_range(location_times[FirstMetAt(k)])
        /\ hours.value = Join(" | ", formatted_groups)

\* C9 witness: two pairs of clock times, the first of them met again after
\* the second, and the second one the smaller string
C9_Witness ==
    /\ Compacted
    /\ Len(formatted_groups) = 2 /\ Len(location_times) = 3
    /\ time_range(location_times[1]) = "7:00 AM - 9:00 PM"
    /\ time_range(location_times[2]) = "12:00 AM - 9:00 PM"
    /\ time_range(location_times[3]) = "7:00 AM - 9:00 PM"
    /\ hours.value = "Sunday - Monday: 7:00 AM - 9:00 PM | Sunday: 12:00 AM - 9:00 PM"

\* the list xs taken in the order p
Reordered(xs, p) == [i \in 1..Len(xs) |-> xs[p[i]]]

\* the exchange of positions i and j of a list of n elements
Swap(n, i, j) == [k \in 1..n |-> IF k = i THEN j ELSE IF k = j THEN i ELSE k]

\* the reorderings tried on a schedule of n slots: all of them up to MaxLen
\* slots, every exchange of two slots beyond
Reorderings(n) ==
    IF n <= MaxLen THEN Orderings(1..n)
    ELSE {Swap(n, i, j) : i \in 1..n, j \in 1..n}

\* C10: the answer of is_location_open_now is the same for every
\* reordering of the interval list.
C10_OrderIndependent ==
    is_open.called =>
        \A p \in Reorderings(Len(location_times)) :
            is_location_open_now(Reordered(location_times, p)) = is_open.value

\* C10 witness: an open answer owed to the last slot alone, which some
\* reordering puts first
C10_Witness ==
    /\ is_open.called /\ is_open.value
    /\ Len(location_times) = MaxLen
    /\ Covering = {MaxLen}
    /\ \E p \in Reorderings(MaxLen) : p[1] = MaxLen

----------------------------------------------------------------------------
(* Properties of the clock formatting *)

Digit == <<"0", "1", "2", "3", "4", "5", "6", "7", "8", "9">>

\* a number below 100 written with exactly two digits
TwoDigits(n) == Digit[(n \div 10) + 1] \o Digit[(n % 10) + 1]

\* a number below 100 written without a leading zero
NoLeadingZero(n) == IF n < 10 THEN Digit[n + 1] ELSE TwoDigits(n)

\* C11: for hour 0..23 and minute 0..59 the result is "<h>:<mm> AM" for
\* hour < 12 and "<h>:<mm> PM" for hour >= 12, h being hour mod 12 with 0
\* shown as 12 and no leading zero, mm always two digits.
C11_TwelveHourClock ==
    time_str # "" =>
        LET h == IF time_arg.hour % 12 = 0 THEN 12 ELSE time_arg.hour % 12
        IN  /\ time_str = NoLeadingZero(h) \o ":" \o TwoDigits(time_arg.minute)
                            \o (IF time_arg.hour < 12 THEN " AM" ELSE " PM")
            /\ time_arg = [hour |-> 0, minute |-> 0] => time_str = "12:00 AM"
            /\ time_arg = [hour |-> 12, minute |-> 0] => time_str = "12:00 PM"
            /\ time_arg = [hour |-> 13, minute |-> 5] => time_str = "1:05 PM"
            /\ time_arg = [hour |-> 23, minute |-> 59] => time_str = "11:59 PM"

\* C11 witness: an afternoon hour with a one-digit minute
C11_Witness ==
    time_arg = [hour |-> 13, minute |-> 5] /\ time_str = "1:05 PM"

----------------------------------------------------------------------------
(* Properties of anomalous schedules *)

\* C12: an empty schedule is not an error: at every clock reading
\* is_location_open_now([]) is false, and group_consecutive_days([]) is
\* exactly "Hours not available".
C12_EmptySchedule ==
    Len(location_times) = 0 =>
        /\ is_open.called => (~is_open.raised /\ ~is_open.value)
        /\ hours.called => (~hours.raised /\ hours.value = "Hours not available")

\* C12 witness: both functions have answered for an empty schedule, at a
\* time of the day at which locations are usually open
C12_Witness ==
    /\ Len(location_times) = 0
    /\ clock = [weekday |-> 0, hour |-> 20, minute |-> 59]
    /\ is_open.called /\ ~is_open.value
    /\ hours.called /\ hours.value = "Hours not available"

\* a slot whose start is not before its end
Degenerate(time_slot) == start_minutes(time_slot) >= end_minutes(time_slot)

\* the list xs with x put after its first pos elements
InsertAt(xs, pos, x) == SubSeq(xs, 1, pos) \o <<x>> \o SubSeq(xs, pos + 1, Len(xs))

\* C13: a degenerate interval (start >= end, also one whose start day is
\* after its end day) matches no instant: a schedule made only of such
\* intervals is reported closed, and adding such an interval anywhere in a
\* schedule does not change the answer.
C13_DegenerateNeverMatches ==
    is_open.called =>
        /\ (\A k \in 1..Len(location_times) : Degenerate(location_times[k]))
               => ~is_open.value
        /\ \A d \in {t \in TimeSlots : Degenerate(t)} :
              \A pos \in 0..Len(location_times) :
                  is_location_open_now(InsertAt(location_times, pos, d)) = is_open.value

\* C13 witness: a schedule of degenerate slots, one of them running from
\* Saturday into Sunday, asked on Sunday before that slot's end
C13_Witness ==
    /\ is_open.called /\ ~is_open.value
    /\ Len(location_times) > 1
    /\ \A k \in 1..Len(location_times) : Degenerate(location_times[k])
    /\ \E k \in 1..Len(location_times) :
          /\ day_idx(location_times[k]) = 6
          /\ current_minutes < end_minutes(location_times[k])

----------------------------------------------------------------------------
(* Properties of the listing *)

\* the blocks of the listing that show the location as open
RenderedOpen == {k \in 1..Len(rendered) : rendered[k].status = "open"}

\* C14 (as stated): within one call of format_locations_list_markdown the
\* "currently open" count of the summary line equals the number of
\* locations rendered as open below it, also when the clock advances
\* between the readings.
C14_SummaryMatchesListing ==
    (pc = "done" /\ Len(locations_data) > 0)
        => open_locations = Cardinality(RenderedOpen)

----------------------------------------------------------------------------
(* Properties of absent fields *)

\* field f of dict t, 0 standing for an absent field
FieldOrZero(t, f) == IF f \in DOMAIN t THEN t[f] ELSE 0

\* the start or end dict t with each absent field set to 0
ZeroFilledInstant(t) ==
    [day |-> FieldOrZero(t, "day"), hour |-> FieldOrZero(t, "hour"),
     minute |-> FieldOrZero(t, "minute")]

\* the slot with an absent start or end dict, and each absent field, set to 0
ZeroFilled(time_slot) ==
    [start |-> ZeroFilledInstant(IF "start" \in DOMAIN time_slot
                                 THEN time_slot.start ELSE EmptyDict),
     end |-> ZeroFilledInstant(IF "end" \in DOMAIN time_slot
                               THEN time_slot.end ELSE EmptyDict)]

ZeroFilledTimes == [i \in 1..Len(location_times) |-> ZeroFilled(location_times[i])]

\* some field of the slot is absent
HasAbsentField(time_slot) == time_slot # ZeroFilled(time_slot)

\* the slots of the schedule with the clock times of group k that start on day d
FiledSlots(k, d) ==
    {i \in 1..Len(location_times) :
        /\ time_range(ZeroFilledTimes[i]) = day_groups[k].time_range
        /\ ZeroFilledTimes[i].start.day = d}

\* C15: absent fields behave exactly as the value 0: both functions return
\* for a schedule what they return for it with every absent field set to 0
\* (a record without fields is filed under Sunday as "12:00 AM - 12:00 AM"
\* and matches no instant), and every interval is filed under its start
\* day, also when its end day differs.
C15_AbsentFieldsAreZero ==
    /\ is_open.called =>
          /\ is_open.value = is_location_open_now(ZeroFilledTimes)
          /\ (\A i \in 1..Len(location_times) : location_times[i] = EmptyDict)
                 => ~is_open.value
    /\ hours.called =>
          LET r == group_consecutive_days(ZeroFilledTimes)
          IN  hours.raised = r.raised /\ hours.value = r.value
    /\ (hours.called /\ location_times = <<EmptyDict>>)
          => hours.value = "Sunday: 12:00 AM - 12:00 AM"
    /\ Compacted =>
          /\ \A i \in 1..Len(location_times) :
                \E k \in 1..Len(day_groups) : FiledSlots(k, ZeroFilledTimes[i].start.day) # {}
          /\ \A k \in 1..Len(day_groups) : \A d \in GroupDays(k) \cup (0..6) :
                Cardinality({j \in 1..Len(day_groups[k].day_indices) :
                                day_groups[k].day_indices[j] = d})
                    = Cardinality(FiledSlots(k, d))

\* C15 witness: both functions have answered for a schedule that holds a
\* record without fields and an interval that ends on the day after its start
C15_Witness ==
    /\ is_open.called /\ Compacted
    /\ \E i \in 1..Len(location_times) : location_times[i] = EmptyDict
    /\ \E i \in 1..Len(location_times) :
          /\ ~HasAbsentField(location_times[i])
          /\ location_times[i].start.day = 1 /\ location_times[i].end.day = 2
    /\ \E k \in 1..Len(day_groups) :
          day_groups[k].time_range = "12:00 AM - 12:00 AM" /\ 0 \in GroupDays(k)
====
